---- MODULE Spec2Model ----
(***************************************************************************)
(* PayPalConfig (paypal/settings.py): the configuration object built from  *)
(* keyword directives.  The model follows PayPalConfig.__init__ statement   *)
(* group by statement group: environment validation, authentication-mode    *)
(* validation, endpoint lookup, CA-certificate check, credential copy,      *)
(* timeout override.                                                        *)
(*                                                                          *)
(* Python values are tagged records [t, v]: t is the Python type, v the     *)
(* printed value.  Instance attributes live in the instance dictionary      *)
(* `self`; an attribute absent from it is read from the class dictionary    *)
(* `cls`, as Python's attribute lookup does.                                *)
(***************************************************************************)
EXTENDS Integers, Sequences, FiniteSets, TLC

VARIABLES
    kwargs,     \* the directive mapping given to __init__ (**kwargs)
    fs,         \* the filesystem: the set of paths that exist
    cls,        \* the class dictionary of PayPalConfig
    self,       \* the instance dictionary of the object being built
    pc,         \* position in __init__
    error,      \* the exception that ended __init__, or NoError
    returned,   \* <<>>, or <<instance dictionary>> once the constructor returned
    probed,     \* paths handed to os.path.exists by this construction
    ref         \* <<>>, or <<an earlier construction's kwargs and outcome>>, kept by the caller

vars == <<kwargs, fs, cls, self, pc, error, returned, probed, ref>>

----------------------------------------------------------------------------
(* Python values *)

Str(s) == [t |-> "str", v |-> s]
None == [t |-> "NoneType", v |-> "None"]
True == [t |-> "bool", v |-> "True"]
False == [t |-> "bool", v |-> "False"]
PyInt(s) == [t |-> "int", v |-> s]
PyFloat(s) == [t |-> "float", v |-> s]

\* a presence test `x is not None`, which lets "", False and 0 through
TruthyNotNone(x) == x # None

\* bool(x): the values Python treats as false
Truthy(x) == x \notin {None, False, Str(""), PyInt("0"), PyFloat("0.0")}

\* isinstance(x, basestring)
IsString(x) == x.t = "str"

\* str.upper() on the strings of the model
Upper(s) ==
    CASE s = "sandbox" -> "SANDBOX"
      [] s = "Production" -> "PRODUCTION"
      [] s = "3token" -> "3TOKEN"
      [] s = "Access_Token" -> "ACCESS_TOKEN"
      [] s = "certificate" -> "CERTIFICATE"
      [] OTHER -> s

EmptyDict == [k \in {} |-> None]

\* `key in d`
Has(d, key) == key \in DOMAIN d

\* d.get(key): None when the key is absent
Get(d, key) == IF Has(d, key) THEN d[key] ELSE None

\* the index of x in the sequence s, 0 when absent
IndexOf(s, x) ==
    IF \E i \in 1..Len(s) : s[i] = x
    THEN CHOOSE i \in 1..Len(s) : s[i] = x /\ \A j \in 1..(i - 1) : s[j] # x
    ELSE 0

\* `x in list`
InList(x, list) == \E i \in 1..Len(list) : list[i] = x

----------------------------------------------------------------------------
(* The class PayPalConfig: lookup tables and defaults *)

ValidEnvironments == <<"SANDBOX", "PRODUCTION">>

\* a list of accepted modes that leaves out the one without endpoints
ValidModesImplemented == <<"3TOKEN", "ACCESS_TOKEN", "3TOKEN_SUBJECT">>

\* _valid_['API_ENVIRONMENT'] and _valid_['API_AUTHENTICATION_MODE']
ValidModes == <<"3TOKEN", "CERTIFICATE", "ACCESS_TOKEN", "3TOKEN_SUBJECT">>

ApiServers ==
    "SANDBOX" :> Str("https://api-3t.sandbox.paypal.com/nvp")
    @@ "PRODUCTION" :> Str("https://api-3t.paypal.com/nvp")

PayPalConfig ==
    "_valid_" :> ("API_ENVIRONMENT" :> ValidEnvironments
                  @@ "API_AUTHENTICATION_MODE" :> ValidModes)
    @@ "_API_ENDPOINTS" :> ("3TOKEN" :> ApiServers
                            @@ "ACCESS_TOKEN" :> ApiServers
                            @@ "3TOKEN_SUBJECT" :> ApiServers)
    @@ "_PAYPAL_URL_BASE" :> ("SANDBOX" :> Str("https://www.sandbox.paypal.com/webscr")
                              @@ "PRODUCTION" :> Str("https://www.paypal.com/webscr"))
    @@ "API_VERSION" :> Str("98.0")
    @@ "API_ENVIRONMENT" :> Str("SANDBOX")
    @@ "API_AUTHENTICATION_MODE" :> Str("3TOKEN")
    @@ "API_USERNAME" :> None
    @@ "API_PASSWORD" :> None
    @@ "API_SIGNATURE" :> None
    @@ "API_ENDPOINT" :> None
    @@ "PAYPAL_URL_BASE" :> None
    @@ "API_CA_CERTS" :> True
    @@ "UNIPAY_SUBJECT" :> None
    @@ "ACK_SUCCESS" :> Str("SUCCESS")
    @@ "ACK_SUCCESS_WITH_WARNING" :> Str("SUCCESSWITHWARNING")
    @@ "HTTP_TIMEOUT" :> PyFloat("15.0")

\* the credential fields each mode copies, in the order the loops visit them
RequiredFields ==
    "3TOKEN" :> <<"API_USERNAME", "API_PASSWORD", "API_SIGNATURE">>
    @@ "ACCESS_TOKEN" :> <<"API_USERNAME", "API_PASSWORD", "ACCESS_TOKEN",
                           "TOKEN_SECRET", "APPLICATION_ID">>
    @@ "3TOKEN_SUBJECT" :> <<"API_USERNAME", "API_PASSWORD", "API_SIGNATURE", "SUBJECT">>

\* the field list of the mode, empty for a mode no loop handles
FieldsOf(mode) == IF Has(RequiredFields, mode) THEN RequiredFields[mode] ELSE << >>

----------------------------------------------------------------------------
(* Attribute access *)

\* self.name: the instance dictionary first, then the class
GetAttr(inst, c, name) == IF Has(inst, name) THEN inst[name] ELSE c[name]

\* self.name = value, seen from the instance dictionary
SetAttr(inst, name, value) ==
    [k \in DOMAIN inst \cup {name} |-> IF k = name THEN value ELSE inst[k]]

\* an assignment PayPalConfig.name = value, which every later object sees
ClassAfterSetattrOnClass(c, name, value) == [c EXCEPT ![name] = value]

\* self.name = value, seen from the class dictionary: it is left alone
ClassAfterSetattr(c, name, value) == c

----------------------------------------------------------------------------
(* Exceptions *)

NoError == [type |-> "", msg |-> ""]
PayPalConfigError(msg) == [type |-> "PayPalConfigError", msg |-> msg]
KeyError(key) == [type |-> "KeyError", msg |-> key]

\* value.upper() on a value that is no string
AttributeError(value) ==
    CASE value.t = "bool" ->
            [type |-> "AttributeError", msg |-> "'bool' object has no attribute 'upper'"]
      [] value.t = "int" ->
            [type |-> "AttributeError", msg |-> "'int' object has no attribute 'upper'"]
      [] value.t = "float" ->
            [type |-> "AttributeError", msg |-> "'float' object has no attribute 'upper'"]
      [] OTHER ->
            [type |-> "AttributeError", msg |-> "'NoneType' object has no attribute 'upper'"]

InvalidEnvironment == PayPalConfigError("Invalid API_ENVIRONMENT")
UnsupportedMode ==
    PayPalConfigError("Not a supported auth mode. Use one of: 3TOKEN, CERTIFICATE, ACCESS_TOKEN, 3TOKEN_SUBJECT")
InvalidCACerts == PayPalConfigError("Invalid API_CA_CERTS")
MissingField(arg) ==
    CASE arg = "API_USERNAME" -> PayPalConfigError("Missing in PayPalConfig: API_USERNAME ")
      [] arg = "API_PASSWORD" -> PayPalConfigError("Missing in PayPalConfig: API_PASSWORD ")
      [] arg = "API_SIGNATURE" -> PayPalConfigError("Missing in PayPalConfig: API_SIGNATURE ")
      [] arg = "ACCESS_TOKEN" -> PayPalConfigError("Missing in PayPalConfig: ACCESS_TOKEN ")
      [] arg = "TOKEN_SECRET" -> PayPalConfigError("Missing in PayPalConfig: TOKEN_SECRET ")
      [] arg = "APPLICATION_ID" -> PayPalConfigError("Missing in PayPalConfig: APPLICATION_ID ")
      [] arg = "SUBJECT" -> PayPalConfigError("Missing in PayPalConfig: SUBJECT ")

----------------------------------------------------------------------------
(* __init__, one action per statement group *)

\* the statement groups of __init__ in program order
Statements == <<"env", "mode", "endpoint", "ca", "creds", "timeout">>

\* where control goes after a statement group that did not raise
After(p) ==
    LET i == IndexOf(Statements, p)
    IN IF i < Len(Statements) THEN Statements[i + 1] ELSE "done"

Terminated == pc \in {"done", "raised"}

\* `raise exc`: the constructor is left, no object reaches the caller
Raise(exc) == pc' = "raised" /\ error' = exc

\* lines 93-99: .upper() exists on strings only, any other truthy value
\* raises AttributeError at line 94
ValidateEnvironment ==
    /\ pc = "env"
    /\ IF Truthy(Get(kwargs, "API_ENVIRONMENT"))
       THEN LET api_environment == Upper(kwargs["API_ENVIRONMENT"].v)
            IN IF ~IsString(kwargs["API_ENVIRONMENT"])
               THEN Raise(AttributeError(kwargs["API_ENVIRONMENT"])) /\ UNCHANGED <<self, cls>>
               ELSE IF ~InList(api_environment, cls["_valid_"]["API_ENVIRONMENT"])
               THEN Raise(InvalidEnvironment) /\ UNCHANGED <<self, cls>>
               ELSE /\ self' = SetAttr(self, "API_ENVIRONMENT", Str(api_environment))
                    /\ cls' = ClassAfterSetattr(cls, "API_ENVIRONMENT", Str(api_environment))
                    /\ pc' = After("env")
                    /\ UNCHANGED error
       ELSE pc' = After("env") /\ UNCHANGED <<self, cls, error>>
    /\ UNCHANGED <<kwargs, fs, returned, probed, ref>>

\* lines 101-110: .upper() exists on strings only, any other truthy value
\* raises AttributeError at line 102
ValidateAuthMode ==
    /\ pc = "mode"
    /\ IF Truthy(Get(kwargs, "API_AUTHENTICATION_MODE"))
       THEN LET auth_mode == Upper(kwargs["API_AUTHENTICATION_MODE"].v)
            IN IF ~IsString(kwargs["API_AUTHENTICATION_MODE"])
               THEN Raise(AttributeError(kwargs["API_AUTHENTICATION_MODE"]))
                    /\ UNCHANGED <<self, cls>>
               ELSE IF ~InList(auth_mode, cls["_valid_"]["API_AUTHENTICATION_MODE"])
               THEN Raise(UnsupportedMode) /\ UNCHANGED <<self, cls>>
               ELSE /\ self' = SetAttr(self, "API_AUTHENTICATION_MODE", Str(auth_mode))
                    /\ cls' = ClassAfterSetattr(cls, "API_AUTHENTICATION_MODE", Str(auth_mode))
                    /\ pc' = After("mode")
                    /\ UNCHANGED error
       ELSE pc' = After("mode") /\ UNCHANGED <<self, cls, error>>
    /\ UNCHANGED <<kwargs, fs, returned, probed, ref>>

\* a lookup in the wrong table: self._PAYPAL_URL_BASE[env]
UrlBaseOf(c, mode, env) == c["_PAYPAL_URL_BASE"][env]

\* self._API_ENDPOINTS[mode][env]
EndpointOf(c, mode, env) == c["_API_ENDPOINTS"][mode][env]

\* lines 112-114: a key missing from either table raises KeyError
SetEndpoints ==
    /\ pc = "endpoint"
    /\ LET mode == GetAttr(self, cls, "API_AUTHENTICATION_MODE").v
            env == GetAttr(self, cls, "API_ENVIRONMENT").v
       IN IF ~Has(cls["_API_ENDPOINTS"], mode)
          THEN Raise(KeyError(mode)) /\ UNCHANGED <<self, cls>>
          ELSE IF ~Has(cls["_API_ENDPOINTS"][mode], env)
          THEN Raise(KeyError(env)) /\ UNCHANGED <<self, cls>>
          ELSE IF ~Has(cls["_PAYPAL_URL_BASE"], env)
          THEN /\ Raise(KeyError(env))
               /\ self' = SetAttr(self, "API_ENDPOINT", EndpointOf(cls, mode, env))
               /\ cls' = ClassAfterSetattr(cls, "API_ENDPOINT", EndpointOf(cls, mode, env))
          ELSE LET endpoint == EndpointOf(cls, mode, env)
                   base == cls["_PAYPAL_URL_BASE"][env]
               IN /\ self' = SetAttr(SetAttr(self, "API_ENDPOINT", endpoint),
                                     "PAYPAL_URL_BASE", base)
                  /\ cls' = ClassAfterSetattr(
                                ClassAfterSetattr(cls, "API_ENDPOINT", endpoint),
                                "PAYPAL_URL_BASE", base)
                  /\ pc' = After("endpoint")
                  /\ UNCHANGED error
    /\ UNCHANGED <<kwargs, fs, returned, probed, ref>>

\* a check that never looks at the filesystem
PathExistsAlways(fsys, path) == TRUE

\* os.path.exists(path)
PathExists(fsys, path) == path \in fsys

\* lines 116-123: the value is stored before the path is checked
SetCACerts ==
    /\ pc = "ca"
    /\ IF Truthy(Get(kwargs, "API_CA_CERTS"))
       THEN LET value == kwargs["API_CA_CERTS"]
            IN /\ self' = SetAttr(self, "API_CA_CERTS", value)
               /\ cls' = ClassAfterSetattr(cls, "API_CA_CERTS", value)
               /\ IF IsString(value)
                  THEN /\ probed' = probed \cup {value.v}
                       /\ IF ~PathExists(fs, value.v)
                          THEN Raise(InvalidCACerts)
                          ELSE pc' = After("ca") /\ UNCHANGED error
                  ELSE pc' = After("ca") /\ UNCHANGED <<error, probed>>
       ELSE pc' = After("ca") /\ UNCHANGED <<self, cls, error, probed>>
    /\ UNCHANGED <<kwargs, fs, returned, ref>>

\* a loop whose error names the arg visited before the absent one
FirstMissingStale(kw, fields) ==
    IF \E i \in 1..Len(fields) : ~Has(kw, fields[i])
    THEN LET first == CHOOSE i \in 1..Len(fields) :
                        /\ ~Has(kw, fields[i])
                        /\ \A j \in 1..(i - 1) : Has(kw, fields[j])
         IN IF first > 1 THEN first - 1 ELSE first
    ELSE 0

\* the position in `fields` of the first arg with `arg not in kwargs`, 0 if none
FirstMissing(kw, fields) ==
    IF \E i \in 1..Len(fields) : ~Has(kw, fields[i])
    THEN CHOOSE i \in 1..Len(fields) :
            /\ ~Has(kw, fields[i])
            /\ \A j \in 1..(i - 1) : Has(kw, fields[j])
    ELSE 0

\* a loop that stops one short of the field list
RECURSIVE CopyFieldsButLast(_, _, _, _)
CopyFieldsButLast(inst, kw, fields, n) ==
    IF n = 0 THEN inst
    ELSE IF n = Len(fields) THEN CopyFieldsButLast(inst, kw, fields, n - 1)
    ELSE SetAttr(CopyFieldsButLast(inst, kw, fields, n - 1), fields[n], kw[fields[n]])

\* setattr(self, arg, kwargs[arg]) for the first n args of `fields`
RECURSIVE CopyFields(_, _, _, _)
CopyFields(inst, kw, fields, n) ==
    IF n = 0 THEN inst
    ELSE SetAttr(CopyFields(inst, kw, fields, n - 1), fields[n], kw[fields[n]])

\* lines 125-142: the loop of the resolved mode copies its fields in order and
\* raises at the first one absent, the earlier ones already set
SetCredentials ==
    /\ pc = "creds"
    /\ LET fields == FieldsOf(GetAttr(self, cls, "API_AUTHENTICATION_MODE").v)
           m == FirstMissing(kwargs, fields)
       IN IF m # 0
          THEN /\ self' = CopyFields(self, kwargs, fields, m - 1)
               /\ Raise(MissingField(fields[m]))
          ELSE /\ self' = CopyFields(self, kwargs, fields, Len(fields))
               /\ pc' = After("creds")
               /\ UNCHANGED error
    /\ UNCHANGED <<kwargs, fs, cls, returned, probed, ref>>

\* lines 144-150: the timeout override, the debug log line, and the return
SetTimeout ==
    /\ pc = "timeout"
    /\ LET inst == IF Has(kwargs, "HTTP_TIMEOUT")
                   THEN SetAttr(self, "HTTP_TIMEOUT", kwargs["HTTP_TIMEOUT"])
                   ELSE self
       IN /\ self' = inst
          /\ returned' = <<inst>>
    /\ pc' = After("timeout")
    /\ UNCHANGED <<kwargs, fs, cls, error, probed, ref>>

Construct ==
    \/ ValidateEnvironment
    \/ ValidateAuthMode
    \/ SetEndpoints
    \/ SetCACerts
    \/ SetCredentials
    \/ SetTimeout

----------------------------------------------------------------------------
(* The directive mappings the constructor is called with *)

\* at most this many directives of one call are unusual: a letter-case
\* variant, a falsy or non-string value, or a directive no check reads
MaxUnusual == 1

CAPathPresent == "/etc/ssl/certs/ca.pem"
CAPathAbsent == "/etc/ssl/certs/missing.pem"

EnvironmentValues == {Str("SANDBOX"), Str("PRODUCTION"), Str("FOO")}
EnvironmentUnusual == {Str("sandbox"), Str("Production"), Str(""), None, False, PyInt("0"),
                       True, PyInt("1")}
ModeValues == {Str("3TOKEN"), Str("CERTIFICATE"), Str("ACCESS_TOKEN"),
               Str("3TOKEN_SUBJECT"), Str("FOO")}
ModeUnusual == {Str("3token"), Str("Access_Token"), Str("certificate"),
                Str(""), None, False, PyInt("0"), True, PyInt("1")}
CACertsValues == {True, Str(CAPathPresent), Str(CAPathAbsent)}
CACertsUnusual == {Str(""), None, False, PyInt("0"), PyInt("1")}

CredentialKeys == {"API_USERNAME", "API_PASSWORD", "API_SIGNATURE", "ACCESS_TOKEN",
                   "TOKEN_SECRET", "APPLICATION_ID", "SUBJECT"}
CredentialUnusual == {Str(""), None}
\* the usual value of a credential: a string of its own
CredentialValue(k) ==
    CASE k = "API_USERNAME" -> Str("seller_api1.example.com")
      [] k = "API_PASSWORD" -> Str("hunter2")
      [] k = "API_SIGNATURE" -> Str("AFcWxV21C7fd0v3bYYYRCpSSRl31A")
      [] k = "ACCESS_TOKEN" -> Str("tok-1")
      [] k = "TOKEN_SECRET" -> Str("sec-1")
      [] k = "APPLICATION_ID" -> Str("APP-80W284485P519543T")
      [] k = "SUBJECT" -> Str("merchant@example.com")

\* directives __init__ reads without validating, or does not read at all
OtherValues ==
    "HTTP_TIMEOUT" :> PyInt("30")
    @@ "API_ENDPOINT" :> Str("https://example.invalid/nvp")
    @@ "PAYPAL_URL_BASE" :> Str("https://example.invalid/webscr")

Range(f) == {f[i] : i \in DOMAIN f}

\* mappings with at most one key
Entries(key, values) == {EmptyDict} \cup {key :> v : v \in values}

CredentialKeySets == SUBSET CredentialKeys

CredentialDicts ==
    UNION {{[k \in S |-> IF k \in U THEN u ELSE CredentialValue(k)] :
                U \in {X \in SUBSET S : Cardinality(X) <= MaxUnusual},
                u \in CredentialUnusual} :
           S \in CredentialKeySets}

IsUnusual(key, value) ==
    CASE key = "API_ENVIRONMENT" -> value \in EnvironmentUnusual
      [] key = "API_AUTHENTICATION_MODE" -> value \in ModeUnusual
      [] key = "API_CA_CERTS" -> value \in CACertsUnusual
      [] key \in CredentialKeys -> value \in CredentialUnusual
      [] OTHER -> TRUE

Unusual(kw) == Cardinality({k \in DOMAIN kw : IsUnusual(k, kw[k])})

Within(parts, budget) == {p \in parts : Unusual(p) <= budget}

EnvironmentDicts == Entries("API_ENVIRONMENT", EnvironmentValues \cup EnvironmentUnusual)
ModeDicts == Entries("API_AUTHENTICATION_MODE", ModeValues \cup ModeUnusual)
CACertsDicts == Entries("API_CA_CERTS", CACertsValues \cup CACertsUnusual)
OtherDicts == {EmptyDict} \cup {k :> OtherValues[k] : k \in DOMAIN OtherValues}

\* the state on entry to __init__ with the directives kw
Enter(kw) ==
    /\ kwargs = kw
    /\ self = EmptyDict
    /\ pc = Statements[1]
    /\ error = NoError
    /\ returned = << >>
    /\ probed = {}

Init ==
    /\ fs = {CAPathPresent}
    /\ cls = PayPalConfig
    /\ ref = << >>
    /\ \E e \in EnvironmentDicts :
       \E m \in Within(ModeDicts, MaxUnusual - Unusual(e)) :
       \E c \in Within(CACertsDicts, MaxUnusual - Unusual(e @@ m)) :
       \E o \in Within(OtherDicts, MaxUnusual - Unusual(e @@ m @@ c)) :
       \E cr \in Within(CredentialDicts, MaxUnusual - Unusual(e @@ m @@ c @@ o)) :
          Enter(e @@ m @@ c @@ o @@ cr)

Next == Construct

Spec == Init /\ [][Next]_vars

----------------------------------------------------------------------------
(* Several constructions in one process: the class dictionary is shared *)

AllCredentials == [k \in CredentialKeys |-> CredentialValue(k)]

\* the directive mappings of the repeated constructions
SampleDirectives ==
    {e @@ m @@ c @@ cr :
        e \in Entries("API_ENVIRONMENT", {Str("PRODUCTION"), Str("FOO")}),
        m \in Entries("API_AUTHENTICATION_MODE", {Str("ACCESS_TOKEN"), Str("CERTIFICATE")}),
        c \in Entries("API_CA_CERTS", {Str(CAPathPresent), Str(CAPathAbsent)}),
        cr \in {AllCredentials,
                [k \in CredentialKeys \ {"API_PASSWORD"} |-> CredentialValue(k)]}}

\* the next call of PayPalConfig(**kw): a fresh instance
EnterAgain(kw) ==
    /\ kwargs' = kw
    /\ self' = EmptyDict
    /\ pc' = Statements[1]
    /\ error' = NoError
    /\ returned' = << >>
    /\ probed' = {}

\* what the caller of PayPalConfig(**kwargs) observes
Outcome == [error |-> error, returned |-> returned]

\* the caller keeps the outcome of the construction that just ended
Remember ==
    /\ Terminated
    /\ ref = << >>
    /\ ref' = <<[kwargs |-> kwargs, outcome |-> Outcome,
                 again |-> FALSE, between |-> FALSE]>>
    /\ UNCHANGED <<kwargs, fs, cls, self, pc, error, returned, probed>>

\* the caller constructs again; a kept outcome notes that a construction
\* followed it (again) and whether one from other directives did (between)
Reconstruct ==
    /\ Terminated
    /\ \E kw \in SampleDirectives :
          /\ EnterAgain(kw)
          /\ ref' = IF ref = << >> THEN ref
                    ELSE <<[ref[1] EXCEPT !.again = TRUE,
                                          !.between = @ \/ kw # ref[1].kwargs]>>
    /\ UNCHANGED <<fs, cls>>

InitTwice ==
    /\ fs = {CAPathPresent}
    /\ cls = PayPalConfig
    /\ ref = << >>
    /\ \E kw \in SampleDirectives : Enter(kw)

NextTwice == Construct \/ Remember \/ Reconstruct

SpecTwice == InitTwice /\ [][NextTwice]_vars

----------------------------------------------------------------------------
(* Properties *)

Constructed == pc = "done"
Failed == pc = "raised"

\* the attribute as a reader of the object being built sees it
Attr(name) == GetAttr(self, cls, name)

\* the attribute of the object the constructor returned
ConfigAttr(name) == GetAttr(returned[1], cls, name)

Falsy == {Str(""), None, False, PyInt("0")}
Environments == {"SANDBOX", "PRODUCTION"}
Modes == {"3TOKEN", "CERTIFICATE", "ACCESS_TOKEN", "3TOKEN_SUBJECT"}
EndpointModes == {"3TOKEN", "ACCESS_TOKEN", "3TOKEN_SUBJECT"}

\* the directive is supplied as a non-empty string
GivenString(key) == Has(kwargs, key) /\ IsString(kwargs[key]) /\ kwargs[key] # Str("")

\* the directive is omitted or supplied with a falsy value
NotGiven(key) == ~Has(kwargs, key) \/ kwargs[key] \in Falsy

\* the directive is supplied with a truthy value that is no string
NotString(key) == Has(kwargs, key) /\ kwargs[key] \notin Falsy /\ ~IsString(kwargs[key])

EnvironmentInvalid ==
    GivenString("API_ENVIRONMENT") /\ Upper(kwargs["API_ENVIRONMENT"].v) \notin Environments
ModeInvalid ==
    GivenString("API_AUTHENTICATION_MODE")
    /\ Upper(kwargs["API_AUTHENTICATION_MODE"].v) \notin Modes

\* the mode the directives resolve to
ResolvedMode ==
    IF NotGiven("API_AUTHENTICATION_MODE") THEN "3TOKEN"
    ELSE IF NotString("API_AUTHENTICATION_MODE") THEN "(none)"
    ELSE Upper(kwargs["API_AUTHENTICATION_MODE"].v)

\* the CA directive is a string path that does not exist
CAPathMissing ==
    GivenString("API_CA_CERTS") /\ kwargs["API_CA_CERTS"].v \notin fs

\* positions of the resolved mode's fields that the directives lack
AbsentFields ==
    {i \in DOMAIN FieldsOf(ResolvedMode) : FieldsOf(ResolvedMode)[i] \notin DOMAIN kwargs}

\* environment and mode directives pass validation and the mode has endpoints
EnvironmentAndModeValid ==
    /\ ~EnvironmentInvalid /\ ~NotString("API_ENVIRONMENT")
    /\ ~ModeInvalid /\ ~NotString("API_AUTHENTICATION_MODE")
    /\ ResolvedMode \in EndpointModes

CredentialErrors == {MissingField(f) : f \in CredentialKeys}


\* C1 as stated: a constructed configuration holds every required credential
\* field of its mode, non-empty (not None, not "") and equal to the supplied
\* value; a failed construction returns no object.
C1_RequiredNonEmpty ==
    /\ Constructed =>
          \A f \in Range(FieldsOf(ConfigAttr("API_AUTHENTICATION_MODE").v)) :
              /\ Has(returned[1], f) /\ Has(kwargs, f)
              /\ returned[1][f] = kwargs[f]
              /\ returned[1][f] \notin {None, Str("")}
    /\ Failed => returned = << >>

\* C1 amended: a constructed configuration holds every required credential
\* field of its mode, each being the value supplied under that key in the
\* directive mapping, unmodified (the value may be None or ""); the mode is
\* one with a field list; a failed construction returns no object.
C1_RequiredPresent ==
    /\ Constructed =>
          /\ returned = <<self>>
          /\ ConfigAttr("API_AUTHENTICATION_MODE").v \in DOMAIN RequiredFields
          /\ \A f \in Range(FieldsOf(ConfigAttr("API_AUTHENTICATION_MODE").v)) :
                 /\ Has(returned[1], f) /\ Has(kwargs, f)
                 /\ returned[1][f] = kwargs[f]
    /\ Failed => returned = << >>

\* a configuration in mode ACCESS_TOKEN was constructed with an empty or None
\* required credential
C1_Witness ==
    /\ Constructed
    /\ ConfigAttr("API_AUTHENTICATION_MODE") = Str("ACCESS_TOKEN")
    /\ \E f \in Range(RequiredFields["ACCESS_TOKEN"]) : returned[1][f] \in {None, Str("")}

\* C2: the endpoint tables have an entry for each of the three modes and two
\* environments, no construction resolving to them ends in a lookup failure,
\* and a constructed configuration's API_ENDPOINT and PAYPAL_URL_BASE are the
\* table entries of its final mode and environment, whatever the directives
\* (API_ENDPOINT and PAYPAL_URL_BASE directives included) say.
C2_EndpointsFromTable ==
    /\ \A m \in EndpointModes : \A e \in Environments :
          /\ Has(cls["_API_ENDPOINTS"], m) /\ Has(cls["_API_ENDPOINTS"][m], e)
          /\ Has(cls["_PAYPAL_URL_BASE"], e)
    /\ error.type = "KeyError" => Attr("API_AUTHENTICATION_MODE").v \notin EndpointModes
    /\ Constructed =>
          /\ ConfigAttr("API_ENDPOINT") =
                PayPalConfig["_API_ENDPOINTS"][ConfigAttr("API_AUTHENTICATION_MODE").v]
                                              [ConfigAttr("API_ENVIRONMENT").v]
          /\ ConfigAttr("PAYPAL_URL_BASE") =
                PayPalConfig["_PAYPAL_URL_BASE"][ConfigAttr("API_ENVIRONMENT").v]

\* a production configuration was constructed from directives that tried to
\* set API_ENDPOINT themselves
C2_Witness ==
    /\ Constructed
    /\ Has(kwargs, "API_ENDPOINT")
    /\ ConfigAttr("API_ENVIRONMENT") = Str("PRODUCTION")
    /\ ConfigAttr("API_ENDPOINT") = Str("https://api-3t.paypal.com/nvp")

\* C3 as stated: with environment and mode directives that are strings (or
\* falsy), every failed construction ended in a PayPalConfigError for
\* one of the four causes: invalid environment, unsupported mode, missing
\* required credential, invalid CA certificate path.
C3_OnlyConfigErrors ==
    (/\ Failed
     /\ ~NotString("API_ENVIRONMENT")
     /\ ~NotString("API_AUTHENTICATION_MODE")) =>
        error \in {InvalidEnvironment, UnsupportedMode, InvalidCACerts} \cup CredentialErrors

\* C4: with environment, mode and CA directives that pass and a mode among
\* 3TOKEN, ACCESS_TOKEN, 3TOKEN_SUBJECT, a construction whose directives lack
\* a required field ends in the missing-field error naming the first absent
\* field of the mode's list, and one lacking none ends without error.
C4_FirstMissingField ==
    (Terminated /\ EnvironmentAndModeValid /\ ~CAPathMissing) =>
        IF AbsentFields # {}
        THEN /\ Failed
             /\ \E i \in AbsentFields :
                   /\ \A j \in AbsentFields : i <= j
                   /\ error = MissingField(FieldsOf(ResolvedMode)[i])
        ELSE Constructed /\ error = NoError

\* mode ACCESS_TOKEN lacked ACCESS_TOKEN and APPLICATION_ID, and the error
\* names ACCESS_TOKEN
C4_Witness ==
    /\ Failed
    /\ ResolvedMode = "ACCESS_TOKEN"
    /\ AbsentFields = {3, 5}
    /\ error = MissingField("ACCESS_TOKEN")

\* C5 as stated: a constructed configuration's environment and mode are
\* enumerated values, equal to the uppercased directive when the directive is
\* supplied and to the default when it is omitted; a supplied value that has
\* no uppercase form among the enumerated values makes the construction fail
\* with PayPalConfigError.
C5_SuppliedUppercased ==
    /\ Constructed =>
          /\ ConfigAttr("API_ENVIRONMENT").v \in Environments
          /\ ConfigAttr("API_AUTHENTICATION_MODE").v \in Modes
          /\ \A key \in {"API_ENVIRONMENT", "API_AUTHENTICATION_MODE"} :
                IF Has(kwargs, key) /\ IsString(kwargs[key])
                THEN ConfigAttr(key) = Str(Upper(kwargs[key].v))
                ELSE Has(kwargs, key) \/ ConfigAttr(key) = PayPalConfig[key]
    /\ Terminated =>
          /\ (/\ Has(kwargs, "API_ENVIRONMENT")
              /\ \/ ~IsString(kwargs["API_ENVIRONMENT"])
                 \/ Upper(kwargs["API_ENVIRONMENT"].v) \notin Environments)
             => (Failed /\ error.type = "PayPalConfigError")
          /\ (/\ Has(kwargs, "API_AUTHENTICATION_MODE")
              /\ \/ ~IsString(kwargs["API_AUTHENTICATION_MODE"])
                 \/ Upper(kwargs["API_AUTHENTICATION_MODE"].v) \notin Modes)
             => (Failed /\ error.type = "PayPalConfigError")

\* C6: with otherwise valid directives, a CA directive naming a path that
\* does not exist ends the construction in the invalid-CA error; a CA
\* directive of True, or none, lets it succeed with the policy True and the
\* filesystem never probed; and a constructed configuration whose policy is a
\* path names a path that exists.
C6_CACertsChecked ==
    /\ (EnvironmentAndModeValid /\ AbsentFields = {}) =>
          /\ (CAPathMissing /\ Terminated) => (Failed /\ error = InvalidCACerts)
          /\ (~Has(kwargs, "API_CA_CERTS") \/ kwargs["API_CA_CERTS"] = True) =>
                /\ probed = {}
                /\ Attr("API_CA_CERTS") = True
                /\ Terminated => Constructed
    /\ (Constructed /\ IsString(ConfigAttr("API_CA_CERTS"))) =>
          ConfigAttr("API_CA_CERTS").v \in fs

\* otherwise valid directives with a CA path that does not exist were refused
C6_Witness ==
    /\ Failed
    /\ EnvironmentAndModeValid /\ AbsentFields = {}
    /\ CAPathMissing
    /\ probed = {CAPathAbsent}
    /\ error = InvalidCACerts

\* C7: a construction from the directive mapping of an earlier construction
\* ends as that one did (the same exception, or an object with the same
\* attributes), whatever was constructed in between, and no construction
\* changes the class dictionary.
C7_Idempotent ==
    /\ cls = PayPalConfig
    /\ (Terminated /\ ref # << >> /\ kwargs = ref[1].kwargs) => Outcome = ref[1].outcome

\* a production configuration was constructed a second time from the kept
\* directives, after a construction from other directives
C7_Witness ==
    /\ Constructed
    /\ ref # << >>
    /\ kwargs = ref[1].kwargs
    /\ ref[1].again /\ ref[1].between
    /\ ConfigAttr("API_ENVIRONMENT") = Str("PRODUCTION")
    /\ Has(returned[1], "API_CA_CERTS")

\* C8 as stated: no endpoint, redirect URL or credential is set on the
\* instance before both validations are over, nor ever in a construction
\* whose environment or mode directive is invalid (a string that is not
\* enumerated, or a truthy value that is no string); such a construction
\* never succeeds and ends in the invalid-environment error if the
\* environment is invalid, else in the unsupported-mode error, whatever the
\* CA path and the credentials are.
C8_ValidationFirst ==
    LET derived == {"API_ENDPOINT", "PAYPAL_URL_BASE"} \cup CredentialKeys
        environmentInvalid == EnvironmentInvalid \/ NotString("API_ENVIRONMENT")
        modeInvalid == ModeInvalid \/ NotString("API_AUTHENTICATION_MODE")
    IN /\ pc \in {"env", "mode"} => DOMAIN self \cap derived = {}
       /\ (environmentInvalid \/ modeInvalid) =>
             /\ DOMAIN self \cap derived = {}
             /\ ~Constructed
             /\ Terminated =>
                   error = IF environmentInvalid THEN InvalidEnvironment ELSE UnsupportedMode

CertificateGiven ==
    Get(kwargs, "API_AUTHENTICATION_MODE") \in {Str("CERTIFICATE"), Str("certificate")}

\* C9 as stated: a construction with mode CERTIFICATE never gets the
\* unsupported-mode error, never succeeds, and ends in a KeyError from the
\* endpoint lookup with no CA check made and no credential copied.
C9_CertificateKeyError ==
    CertificateGiven =>
        /\ error # UnsupportedMode
        /\ ~Constructed
        /\ probed = {}
        /\ DOMAIN self \cap ({"API_CA_CERTS"} \cup CredentialKeys) = {}
        /\ Terminated => error = KeyError("CERTIFICATE")

\* C9 amended: a construction with mode CERTIFICATE never gets the
\* unsupported-mode error and never succeeds, with no CA check made and no
\* credential copied; it ends in a KeyError from the endpoint lookup unless
\* the environment directive is rejected first: an environment string that is
\* not enumerated ends it in the invalid-environment PayPalConfigError, a
\* truthy environment value that is no string in AttributeError.
C9_CertificateNeverBuilt ==
    CertificateGiven =>
        /\ error # UnsupportedMode
        /\ ~Constructed
        /\ probed = {}
        /\ DOMAIN self \cap ({"API_CA_CERTS"} \cup CredentialKeys) = {}
        /\ Terminated =>
              error = IF EnvironmentInvalid THEN InvalidEnvironment
                      ELSE IF NotString("API_ENVIRONMENT")
                      THEN AttributeError(kwargs["API_ENVIRONMENT"])
                      ELSE KeyError("CERTIFICATE")

\* mode "certificate" with a CA path that does not exist ended in the KeyError
C9_Witness ==
    /\ Failed
    /\ Get(kwargs, "API_AUTHENTICATION_MODE") = Str("certificate")
    /\ CAPathMissing
    /\ error = KeyError("CERTIFICATE")

\* C10: an environment, mode or CA directive with a falsy value leaves the
\* attribute unset on the instance, as omitting it does: the default
\* (SANDBOX, 3TOKEN, True) is what the object shows, no validation error of
\* that directive is raised, and for the CA directive no path is probed; a
\* truthy CA value that is no string is stored as given, unprobed.
C10_FalsyIsOmitted ==
    /\ (Has(kwargs, "API_ENVIRONMENT") /\ kwargs["API_ENVIRONMENT"] \in Falsy) =>
          /\ ~Has(self, "API_ENVIRONMENT")
          /\ Attr("API_ENVIRONMENT") = Str("SANDBOX")
          /\ error # InvalidEnvironment
    /\ (Has(kwargs, "API_AUTHENTICATION_MODE") /\ kwargs["API_AUTHENTICATION_MODE"] \in Falsy) =>
          /\ ~Has(self, "API_AUTHENTICATION_MODE")
          /\ Attr("API_AUTHENTICATION_MODE") = Str("3TOKEN")
          /\ error # UnsupportedMode
    /\ (Has(kwargs, "API_CA_CERTS") /\ kwargs["API_CA_CERTS"] \in Falsy) =>
          /\ ~Has(self, "API_CA_CERTS")
          /\ Attr("API_CA_CERTS") = True
          /\ error # InvalidCACerts
          /\ probed = {}
    /\ (/\ Has(kwargs, "API_CA_CERTS")
        /\ kwargs["API_CA_CERTS"] \notin Falsy
        /\ ~IsString(kwargs["API_CA_CERTS"])) =>
          /\ error # InvalidCACerts
          /\ probed = {}
          /\ pc \in {"creds", "timeout", "done"} => Attr("API_CA_CERTS") = kwargs["API_CA_CERTS"]

\* a configuration was constructed from API_CA_CERTS=False and verifies
C10_Witness ==
    /\ Constructed
    /\ Get(kwargs, "API_CA_CERTS") = False
    /\ Has(kwargs, "API_CA_CERTS")
    /\ ConfigAttr("API_CA_CERTS") = True

====
